---------------------------- MODULE Spec2Model ----------------------------
(***************************************************************************)
(* Model of src/app.py: the CSV-to-student-record transformation           *)
(* (parse_df_to_students), the grade / SGPA / suggestion functions, the    *)
(* chart-data builder (build_figures) and the upload handler (index).      *)
(*                                                                         *)
(* Representation.                                                         *)
(*  - A Python str is a tuple of one-character strings, so that endswith,  *)
(*    replace, strip, float() and sorted() are computed character by       *)
(*    character as the library computes them.                              *)
(*  - A number is an integer count of hundredths (90.0 is 9000, the sgpa   *)
(*    8.75 is 875).  Marks are whole numbers, multiples of 5, so that      *)
(*    every quotient the code rounds to two decimals is either not a tie   *)
(*    or an exactly representable binary tie, where Python's round() is    *)
(*    round-half-to-even on the exact value.                               *)
(*  - A cell of the table, a mark entry and an attendance entry are        *)
(*    tagged values: Str(s), Num(v) or NaN (pandas' missing value, the     *)
(*    float nan).                                                          *)
(***************************************************************************)
EXTENDS Integers, Sequences, FiniteSets, TLC

VARIABLES
    pc,        \* "idle", or "rows" while parse_df_to_students iterates df
    columns,   \* df.columns of the table being processed
    df_empty,  \* df.shape[0] == 0 for the table being processed
    subjects,  \* the local `subjects` of parse_df_to_students / index
    students,  \* the dict `students`: name -> record
    order,     \* insertion order of the keys of `students`
    lastRow,   \* history: name -> the last row iterated under that name
    overwrote, \* history: some row was filed under a name already present
    result     \* what the last finished handler or function call returned

vars == <<pc, columns, df_empty, subjects, students, order, lastRow, overwrote,
          result>>

---------------------------------------------------------------------------
(* Characters and strings                                                  *)

\* The characters in use, in code-point order (what str comparison uses).
CharOrder ==
    << " ", "0", "1", "2", "3", "4", "5", "6", "7", "8", "9",
       "A", "E", "M", "N", "U", "_",
       "a", "b", "c", "d", "e", "g", "h", "k", "m", "n", "o", "r", "s",
       "t", "w" >>

Ord(c) == CHOOSE i \in 1..Len(CharOrder) : CharOrder[i] = c

Digit == <<"0", "1", "2", "3", "4", "5", "6", "7", "8", "9">>

IsDigit(c) == \E i \in 1..10 : Digit[i] = c

DigitVal(c) == (CHOOSE i \in 1..10 : Digit[i] = c) - 1

MARKS == <<"_", "m", "a", "r", "k", "s">>

ATTENDANCE == <<"_", "a", "t", "t", "e", "n", "d", "a", "n", "c", "e">>

Unknown == <<"U", "n", "k", "n", "o", "w", "n">>

Absent == <<"A", "b", "s", "e", "n", "t">>

\* s < t in Python's str order: the first differing character decides, a
\* proper prefix is smaller.
LexLess(s, t) ==
    \E k \in 0..Len(s) :
        /\ k <= Len(t)
        /\ \A j \in 1..k : s[j] = t[j]
        /\ \/ (k = Len(s) /\ k < Len(t))
           \/ (k < Len(s) /\ k < Len(t) /\ Ord(s[k + 1]) < Ord(t[k + 1]))

\* str.endswith
EndsWith(s, suf) ==
    /\ Len(s) >= Len(suf)
    /\ SubSeq(s, Len(s) - Len(suf) + 1, Len(s)) = suf

StartsWith(s, pre) ==
    /\ Len(s) >= Len(pre)
    /\ SubSeq(s, 1, Len(pre)) = pre

\* str.replace(old, ""): every non-overlapping occurrence of old, scanning
\* from the left, is removed.
RECURSIVE Remove(_, _)
Remove(s, old) ==
    IF s = <<>> THEN <<>>
    ELSE IF StartsWith(s, old)
         THEN Remove(SubSeq(s, Len(old) + 1, Len(s)), old)
         ELSE <<Head(s)>> \o Remove(Tail(s), old)

\* str.strip(): leading and trailing whitespace removed.
RECURSIVE LStrip(_)
LStrip(s) ==
    IF s # <<>> /\ Head(s) = " " THEN LStrip(Tail(s)) ELSE s

RECURSIVE RStrip(_)
RStrip(s) ==
    IF s # <<>> /\ s[Len(s)] = " " THEN RStrip(SubSeq(s, 1, Len(s) - 1)) ELSE s

Strip(s) == RStrip(LStrip(s))

\* sorted(list(set(xs))) for a set of strings.
RECURSIVE SortedSeq(_)
SortedSeq(S) ==
    IF S = {} THEN <<>>
    ELSE LET m == CHOOSE x \in S : \A y \in S \ {x} : LexLess(x, y)
         IN  <<m>> \o SortedSeq(S \ {m})

SeqToSet(s) == {s[i] : i \in 1..Len(s)}

RECURSIVE SumSeq(_)
SumSeq(s) == IF s = <<>> THEN 0 ELSE Head(s) + SumSeq(Tail(s))

---------------------------------------------------------------------------
(* Values                                                                  *)

Str(s) == [t |-> "str", s |-> s, v |-> 0]

Num(v) == [t |-> "num", s |-> <<>>, v |-> v]

NaN == [t |-> "nan", s |-> <<>>, v |-> 0]

\* pd.isna(val) for a scalar cell
IsNa(val) == val.t = "nan"

\* Decimal digits of a natural number.
RECURSIVE Digits(_)
Digits(n) ==
    IF n < 10 THEN <<Digit[n + 1]>> ELSE Digits(n \div 10) \o <<Digit[(n % 10) + 1]>>

\* str(val): a str is itself, a whole-number cell prints its digits, the
\* float nan prints "nan".
PyStr(val) ==
    CASE val.t = "str" -> val.s
      [] val.t = "num" -> Digits(val.v \div 100)
      [] OTHER -> <<"n", "a", "n">>

RECURSIVE DecValue(_)
DecValue(s) ==
    IF s = <<>> THEN 0 ELSE DecValue(SubSeq(s, 1, Len(s) - 1)) * 10 + DigitVal(s[Len(s)])

\* float(val): a number is itself (nan stays nan); a str is stripped and
\* read as a decimal numeral; anything else raises (ok = FALSE).  The
\* alphabet has no sign, point, exponent or "inf"/"nan" spelling.
PyFloat(val) ==
    CASE val.t = "num" -> [ok |-> TRUE, val |-> val]
      [] val.t = "nan" -> [ok |-> TRUE, val |-> NaN]
      [] OTHER ->
           LET s == Strip(val.s)
           IN  IF s # <<>> /\ \A i \in 1..Len(s) : IsDigit(s[i])
               THEN [ok |-> TRUE, val |-> Num(DecValue(s) * 100)]
               ELSE [ok |-> FALSE, val |-> NaN]

\* x / d rounded to the nearest integer, ties to even (x >= 0, d > 0):
\* round(q, 2) on a quotient q counted in hundredths.
RoundDiv(x, d) ==
    LET q == x \div d
        r == x % d
    IN  IF 2 * r < d THEN q
        ELSE IF 2 * r > d THEN q + 1
        ELSE IF q % 2 = 0 THEN q ELSE q + 1

---------------------------------------------------------------------------
(* Grade / SGPA logic                                                      *)

\* Faulty variant of calculate_sgpa: truncates instead of rounding.
calculate_sgpa_floor(marks) ==
    IF marks = <<>> THEN 0
    ELSE SumSeq(marks) \div (Len(marks) * 10)

\* calculate_sgpa: marks is a list of numbers, the result a number; both in
\* hundredths, so mean / 10 rounded to two decimals is sum / (len * 10)
\* rounded to an integer.
calculate_sgpa(marks) ==
    IF marks = <<>> THEN 0
    ELSE RoundDiv(SumSeq(marks), Len(marks) * 10)

\* Faulty variant of assign_grade: the lower bound of a band is exclusive.
assign_grade_strict(sgpa) ==
    IF sgpa > 900 THEN "O"
    ELSE IF sgpa > 800 THEN "A+"
    ELSE IF sgpa > 700 THEN "A"
    ELSE IF sgpa > 600 THEN "B"
    ELSE IF sgpa > 500 THEN "C"
    ELSE "F"

assign_grade(sgpa) ==
    IF sgpa >= 900 THEN "O"
    ELSE IF sgpa >= 800 THEN "A+"
    ELSE IF sgpa >= 700 THEN "A"
    ELSE IF sgpa >= 600 THEN "B"
    ELSE IF sgpa >= 500 THEN "C"
    ELSE "F"

\* Variant of give_suggestions with a band of its own at 5.
give_suggestions_six(sgpa) ==
    IF sgpa >= 900 THEN "Excellent! Keep it up!"
    ELSE IF sgpa >= 800 THEN "Good! You can improve further to reach 9+."
    ELSE IF sgpa >= 700 THEN "Nice! Try to focus a bit more on weak areas."
    ELSE IF sgpa >= 600 THEN "Average performance. Work harder to improve."
    ELSE IF sgpa >= 500 THEN "Below average. Work harder to improve."
    ELSE "Need serious improvement. Focus on your studies."

give_suggestions(sgpa) ==
    IF sgpa >= 900 THEN "Excellent! Keep it up!"
    ELSE IF sgpa >= 800 THEN "Good! You can improve further to reach 9+."
    ELSE IF sgpa >= 700 THEN "Nice! Try to focus a bit more on weak areas."
    ELSE IF sgpa >= 600 THEN "Average performance. Work harder to improve."
    ELSE "Need serious improvement. Focus on your studies."

---------------------------------------------------------------------------
(* CSV parsing -> students                                                 *)

\* The subject list: every column ending in "_marks", with every occurrence
\* of "_marks" replaced by "", deduplicated and sorted.
DeriveSubjects(cols) ==
    SortedSeq({Remove(cols[i], MARKS) :
                  i \in {j \in 1..Len(cols) : EndsWith(cols[j], MARKS)}})

HasColumn(cols, col) == \E i \in 1..Len(cols) : cols[i] = col

\* row.get(col, default): the row's cell under that column label, or the
\* default when the table has no such column.
RowGet(cols, row, col, default) ==
    IF HasColumn(cols, col)
    THEN row[CHOOSE i \in 1..Len(cols) : cols[i] = col]
    ELSE default

\* name = str(row[name_col]) if not pd.isna(row[name_col]) else "Unknown"
RowName(row) ==
    IF ~IsNa(row[1]) THEN PyStr(row[1]) ELSE Unknown

\* Faulty variant of MarkEntry: an unparseable cell is counted as absent.
MarkEntryUnparseableAbsent(val) ==
    IF IsNa(val) \/ Strip(PyStr(val)) = <<>> \/ ~PyFloat(val).ok
    THEN [m |-> 0, display |-> Str(Absent), absent |-> 1]
    ELSE [m |-> PyFloat(val).val.v, display |-> Num(PyFloat(val).val.v), absent |-> 0]

\* One subject's mark cell: what is appended to marks (m), to
\* display_marks (display) and added to absents (absent).
MarkEntry(val) ==
    IF IsNa(val) \/ Strip(PyStr(val)) = <<>>
    THEN [m |-> 0, display |-> Str(Absent), absent |-> 1]
    ELSE LET f == PyFloat(val)
             m == IF f.ok THEN f.val.v ELSE 0
         IN  [m |-> m, display |-> Num(m), absent |-> 0]

\* One subject's attendance cell: float(att_val), 0.0 when float() raises.
AttEntry(att_val) ==
    LET f == PyFloat(att_val)
    IN  IF f.ok THEN f.val ELSE Num(0)

\* Faulty variant of MarkEntries: the mark columns are read in the order
\* of the table's columns, not in subject order.
MarkEntriesColumnOrder(cols, row, subs) ==
    LET markCols == SelectSeq(cols, LAMBDA c : EndsWith(c, MARKS))
    IN  [i \in 1..Len(subs) |-> MarkEntry(RowGet(cols, row, markCols[i], Str(<<>>)))]

\* The mark entries of a row, one per subject, in subject order.
MarkEntries(cols, row, subs) ==
    [i \in 1..Len(subs) |-> MarkEntry(RowGet(cols, row, subs[i] \o MARKS, Str(<<>>)))]

\* The attendance dict of a row.
BuildAttendance(cols, row, subs) ==
    [sub \in SeqToSet(subs) |->
        AttEntry(RowGet(cols, row, sub \o ATTENDANCE, Num(0)))]

\* att < 75 (false for nan)
Below75(att) == att.t = "num" /\ att.v < 7500

\* Faulty variant of LowAttendance: att <= 75.
RECURSIVE LowAttendanceLe(_, _)
LowAttendanceLe(subs, attendance) ==
    IF subs = <<>> THEN <<>>
    ELSE (IF attendance[Head(subs)].t = "num" /\ attendance[Head(subs)].v <= 7500
          THEN <<Head(subs)>> ELSE <<>>)
         \o LowAttendanceLe(Tail(subs), attendance)

\* [sub for sub, att in attendance.items() if att < 75]; the dict was
\* filled in subject order, one key per subject.
RECURSIVE LowAttendance(_, _)
LowAttendance(subs, attendance) ==
    IF subs = <<>> THEN <<>>
    ELSE (IF Below75(attendance[Head(subs)]) THEN <<Head(subs)>> ELSE <<>>)
         \o LowAttendance(Tail(subs), attendance)

\* The suggestion string: the base message and, when appended is TRUE, the
\* text " | (warning sign) Improve attendance in: " + ", ".join(names) + ".".
Suggestion(sgpa, low_attendance) ==
    [base |-> give_suggestions(sgpa),
     appended |-> low_attendance # <<>>,
     names |-> low_attendance]

\* The record stored for one row.
StudentRecord(cols, row, subs) ==
    LET entries == MarkEntries(cols, row, subs)
        marks == [i \in 1..Len(entries) |-> entries[i].m]
        display_marks == [i \in 1..Len(entries) |-> entries[i].display]
        absents == SumSeq([i \in 1..Len(entries) |-> entries[i].absent])
        attendance == BuildAttendance(cols, row, subs)
        sgpa == calculate_sgpa(marks)
    IN  [marks |-> display_marks,
         total |-> SumSeq(marks),
         sgpa |-> sgpa,
         grade |-> assign_grade(sgpa),
         absents |-> absents,
         attendance |-> attendance,
         suggestion |-> Suggestion(sgpa, LowAttendance(subs, attendance))]

\* Faulty variant of DictSet: an existing key keeps its value.
DictSetDefault(d, key, value) ==
    [k \in DOMAIN d \cup {key} |-> IF k \in DOMAIN d THEN d[k] ELSE value]

\* students[name] = {...}: a new key is added last, an existing key keeps
\* its place and gets the new value.
DictSet(d, key, value) ==
    [k \in DOMAIN d \cup {key} |-> IF k = key THEN value ELSE d[k]]

DictOrder(d, ord, key) ==
    IF key \in DOMAIN d THEN ord ELSE Append(ord, key)

\* The key a row is filed under in the history lastRow: its first cell as
\* text, a missing first cell counting as "Unknown".
NameKey(row) ==
    IF row[1].t = "nan" THEN Unknown ELSE PyStr(row[1])

---------------------------------------------------------------------------
(* Build Plotly figures                                                    *)

\* {"data": [], "layout": {}}
EmptyFigure == [data |-> <<>>, layout |-> <<>>]

EmptyFigures ==
    [sgpa |-> EmptyFigure, grade |-> EmptyFigure, att_vs_sgpa |-> EmptyFigure,
     heatmap |-> EmptyFigure, stacked |-> EmptyFigure, per_student_att |-> <<>>]

\* val if isinstance(val, (int, float)) else 0
NumericOrZero(val) == IF val.t = "num" THEN val.v ELSE 0

\* sum(att_vals) / len(att_vals) if att_vals else 0, kept as the quotient
\* num / den (the code does not round it); nan when any value is nan.
AvgAttendance(rec, subs) ==
    LET att == [i \in 1..Len(subs) |-> rec.attendance[subs[i]]]
    IN  IF subs = <<>> THEN [nan |-> FALSE, num |-> 0, den |-> 1]
        ELSE [nan |-> \E i \in 1..Len(att) : att[i].t = "nan",
              num |-> SumSeq([i \in 1..Len(att) |-> att[i].v]),
              den |-> Len(att)]

\* The data of each figure; names is list(students.keys()).  The order of
\* the grade labels (pandas value_counts) is not modelled: the grade
\* series is the count per grade present.
build_figures(studs, names, subs) ==
    IF names = <<>> THEN EmptyFigures
    ELSE
      LET n == Len(names)
          sgpas == [i \in 1..n |-> studs[names[i]].sgpa]
          grades == {studs[names[i]].grade : i \in 1..n}
          z == [j \in 1..Len(subs) |->
                  [i \in 1..n |-> NumericOrZero(studs[names[i]].marks[j])]]
      IN  [sgpa |->
             [data |-> <<[type |-> "bar", x |-> names, y |-> sgpas]>>,
              layout |-> [title |-> "SGPA Comparison", range |-> <<0, 1000>>]],
           grade |->
             [data |-> <<[type |-> "pie",
                          counts |-> [g \in grades |->
                              Cardinality({i \in 1..n : studs[names[i]].grade = g})]]>>,
              layout |-> [title |-> "Grade Distribution"]],
           att_vs_sgpa |->
             [data |-> <<[type |-> "scatter",
                          x |-> [i \in 1..n |-> AvgAttendance(studs[names[i]], subs)],
                          y |-> sgpas, text |-> names]>>,
              layout |-> [title |-> "Average Attendance vs SGPA"]],
           heatmap |->
             [data |-> <<[type |-> "heatmap", z |-> z, x |-> names, y |-> subs]>>,
              layout |-> [title |-> "Subject-wise Marks Heatmap (Subjects as rows)"]],
           stacked |->
             [data |-> [j \in 1..Len(subs) |->
                          [type |-> "bar", x |-> names, y |-> z[j], name |-> subs[j]]],
              layout |-> [title |-> "Subject-wise Marks (Stacked)", barmode |-> "stack"]],
           per_student_att |->
             [i \in 1..n |->
                [name |-> names[i],
                 fig |-> [data |-> <<[type |-> "bar", x |-> subs,
                                      y |-> [j \in 1..Len(subs) |->
                                               studs[names[i]].attendance[subs[j]]]]>>,
                          layout |-> [range |-> <<0, 10000>>]]]]]

RECURSIVE MaxSeq(_)
MaxSeq(s) ==
    IF Len(s) = 1 THEN s[1]
    ELSE LET m == MaxSeq(Tail(s)) IN IF s[1] >= m THEN s[1] ELSE m

RECURSIVE MinSeq(_)
MinSeq(s) ==
    IF Len(s) = 1 THEN s[1]
    ELSE LET m == MinSeq(Tail(s)) IN IF s[1] <= m THEN s[1] ELSE m

\* class_summary of index: mean, max and min of the sgpa values, each
\* rounded to two decimals, 0 when there are none.
ClassSummary(sgpas) ==
    [avg_sgpa |-> IF sgpas # <<>> THEN RoundDiv(SumSeq(sgpas), Len(sgpas)) ELSE 0,
     max_sgpa |-> IF sgpas # <<>> THEN MaxSeq(sgpas) ELSE 0,
     min_sgpa |-> IF sgpas # <<>> THEN MinSeq(sgpas) ELSE 0]

---------------------------------------------------------------------------
(* Routes                                                                  *)

NoContext == [students |-> "None"]

\* redirect(url_for("index")) after flash(message, category)
Redirect(category, message) ==
    [op |-> "index", kind |-> "redirect", flash |-> <<category, message>>,
     ctx |-> NoContext]

\* Faulty variant of IndexResponse: no check for an empty students dict.
IndexResponseAlwaysRender(studs, names, subs) ==
    [op |-> "index", kind |-> "render", flash |-> <<>>,
     ctx |-> [students |-> studs,
              names |-> names,
              subjects |-> subs,
              figs |-> build_figures(studs, names, subs),
              class_summary |->
                  ClassSummary([i \in 1..Len(names) |-> studs[names[i]].sgpa])]]

\* What index does with the (students, subjects) parse_df_to_students
\* returned: the warning and redirect when students is empty, otherwise
\* the figures, the class summary and the rendered template's context.
IndexResponse(studs, names, subs) ==
    IF DOMAIN studs = {}
    THEN Redirect("warning", "No student rows found in the CSV.")
    ELSE [op |-> "index", kind |-> "render", flash |-> <<>>,
          ctx |-> [students |-> studs,
                   names |-> names,
                   subjects |-> subs,
                   figs |-> build_figures(studs, names, subs),
                   class_summary |->
                       ClassSummary([i \in 1..Len(names) |-> studs[names[i]].sgpa])]]

\* The value a direct call of one of the module's functions returned.
Returned(fn, arg, ret) ==
    [op |-> fn, kind |-> "return", flash |-> <<>>, ctx |-> [arg |-> arg, ret |-> ret]]

---------------------------------------------------------------------------
(* Inputs                                                                  *)

NameCol == <<"N", "a", "m", "e">>

Math == <<"M", "a", "t", "h">>

Eng == <<"E", "n", "g">>

Ann == <<"A", "n", "n">>

\* Largest sgpa (in hundredths) handed to a direct call of assign_grade or
\* give_suggestions.
MaxSgpa == 1050

\* Longest marks list handed to a direct call of calculate_sgpa.
MaxMarks == 3

\* The marks such a list is made of.
MarkPool == {0, 4500, 5500, 9000, 10000, 12000}

NameCells == {Str(Ann), Str(Unknown), NaN}

\* The uploaded tables: the column labels and, per column, the cells a row
\* may hold there.  Column order differs from sorted subject order; one
\* table has no attendance columns, one no subject at all, one uses its
\* first (name) column as a marks column, one has a label holding "_marks"
\* twice.
Tables ==
    { [columns |-> <<NameCol, Math \o MARKS, Math \o ATTENDANCE>>,
       cells |-> << {Str(Ann), NaN},
                    {NaN, Str(<<" ">>), Str(<<"a", "b">>), Str(<<" ", "5", "5">>),
                     Num(4500), Num(6500), Num(7500), Num(8500), Num(9000)},
                    {NaN, Str(<<"a", "b">>), Num(7400), Num(7500)} >>],
      [columns |-> <<NameCol, Math \o MARKS, Math \o ATTENDANCE,
                     Eng \o MARKS, Eng \o ATTENDANCE>>,
       cells |-> << {Str(Ann), NaN},
                    {NaN, Num(9000)},
                    {NaN, Num(6000), Num(8000)},
                    {NaN, Str(<<"a", "b">>), Num(4500)},
                    {Num(6000), Num(7500)} >>],
      [columns |-> <<NameCol, Math \o MARKS, Eng \o MARKS>>,
       cells |-> << NameCells,
                    {NaN, Num(5500), Num(10000)},
                    {Str(<<" ">>), Str(<<"4", "5">>), Num(12000)} >>],
      [columns |-> <<NameCol>>,
       cells |-> << NameCells >>],
      [columns |-> <<Math \o MARKS, Math \o ATTENDANCE>>,
       cells |-> << {NaN, Str(<<" ">>), Str(<<"9", "0">>), Num(9000), Num(4500)},
                    {Str(<<" ">>), Num(7500)} >>],
      [columns |-> <<NameCol, Math \o MARKS \o MARKS>>,
       cells |-> << {Str(Ann)}, {NaN, Num(9000)} >>] }

\* The rows a table may hold: one cell per column.
RECURSIVE RowsOf(_)
RowsOf(cells) ==
    IF cells = <<>> THEN {<<>>}
    ELSE {<<c>> \o r : c \in Head(cells), r \in RowsOf(Tail(cells))}

\* The rows a table with these column labels may hold.
RowsFor(cols) ==
    UNION {RowsOf(t.cells) : t \in {u \in Tables : u.columns = cols}}

RECURSIVE SeqsUpTo(_, _)
SeqsUpTo(S, n) ==
    IF n = 0 THEN {<<>>}
    ELSE LET shorter == SeqsUpTo(S, n - 1)
         IN  shorter \cup {Append(q, x) : q \in {p \in shorter : Len(p) = n - 1}, x \in S}

\* The (students, names, subjects) handed to a direct call of
\* build_figures: no students, or the one record of a one-row table.
FigureInputs ==
    {[studs |-> <<>>, names |-> <<>>, subs |-> DeriveSubjects(t.columns)] : t \in Tables}
    \cup
    UNION {{[studs |-> (RowName(row) :> StudentRecord(t.columns, row, DeriveSubjects(t.columns))),
             names |-> <<RowName(row)>>,
             subs |-> DeriveSubjects(t.columns)] : row \in RowsOf(t.cells)}
           : t \in {u \in Tables : Len(u.columns) = 2}}

---------------------------------------------------------------------------
(* State machine                                                           *)

NoResult == [op |-> "none", kind |-> "none", flash |-> <<>>, ctx |-> NoContext]

Init ==
    /\ pc = "idle"
    /\ columns = <<>>
    /\ df_empty = FALSE
    /\ subjects = <<>>
    /\ students = <<>>
    /\ order = <<>>
    /\ lastRow = <<>>
    /\ overwrote = FALSE
    /\ result = NoResult

\* No invocation is running and none has returned yet.
Fresh == pc = "idle" /\ result = NoResult

NoTable ==
    UNCHANGED <<pc, columns, df_empty, subjects, students, order, lastRow, overwrote>>

\* GET /: render_template("index.html", students=None)
Get ==
    /\ Fresh
    /\ result' = [op |-> "index", kind |-> "render", flash |-> <<>>, ctx |-> NoContext]
    /\ NoTable

\* POST / without a file
PostNoFile ==
    /\ Fresh
    /\ result' = Redirect("danger", "Please upload a CSV file.")
    /\ NoTable

\* POST / with a file pd.read_csv cannot read
PostUnreadable ==
    /\ Fresh
    /\ result' = Redirect("danger", "Could not read CSV")
    /\ NoTable

\* POST / with a table of zero rows: parse_df_to_students derives the
\* subjects and returns ({}, subjects); index goes on with that.
PostEmptyCsv(t) ==
    /\ Fresh
    /\ columns' = t.columns
    /\ df_empty' = TRUE
    /\ subjects' = DeriveSubjects(t.columns)
    /\ students' = <<>>
    /\ order' = <<>>
    /\ result' = IndexResponse(<<>>, <<>>, DeriveSubjects(t.columns))
    /\ UNCHANGED <<pc, lastRow, overwrote>>

\* POST / with a table of at least one row: parse_df_to_students derives
\* the subjects and starts df.iterrows().
PostCsv(t) ==
    /\ Fresh
    /\ pc' = "rows"
    /\ columns' = t.columns
    /\ df_empty' = FALSE
    /\ subjects' = DeriveSubjects(t.columns)
    /\ students' = <<>>
    /\ order' = <<>>
    /\ UNCHANGED <<lastRow, overwrote, result>>

\* One iteration of the loop over df.iterrows().
IterRow(row) ==
    /\ pc = "rows"
    /\ students' = DictSet(students, RowName(row), StudentRecord(columns, row, subjects))
    /\ order' = DictOrder(students, order, RowName(row))
    /\ lastRow' = [k \in DOMAIN lastRow \cup {NameKey(row)} |->
                      IF k = NameKey(row) THEN row ELSE lastRow[k]]
    /\ overwrote' = (overwrote \/ NameKey(row) \in DOMAIN lastRow)
    /\ UNCHANGED <<pc, columns, df_empty, subjects, result>>

\* The loop ends (after at least one row); parse_df_to_students returns and
\* index builds its response.
Render ==
    /\ pc = "rows"
    /\ DOMAIN students # {}
    /\ pc' = "idle"
    /\ result' = IndexResponse(students, order, subjects)
    /\ UNCHANGED <<columns, df_empty, subjects, students, order, lastRow, overwrote>>

\* Direct calls of the module's functions.
CallAssignGrade(sgpa) ==
    /\ Fresh
    /\ result' = Returned("assign_grade", sgpa, assign_grade(sgpa))
    /\ NoTable

CallGiveSuggestions(sgpa) ==
    /\ Fresh
    /\ result' = Returned("give_suggestions", sgpa, give_suggestions(sgpa))
    /\ NoTable

CallCalculateSgpa(marks) ==
    /\ Fresh
    /\ result' = Returned("calculate_sgpa", marks, calculate_sgpa(marks))
    /\ NoTable

CallBuildFigures(in) ==
    /\ Fresh
    /\ result' = Returned("build_figures", in, build_figures(in.studs, in.names, in.subs))
    /\ NoTable

\* The invocation is over: its locals are discarded, nothing is kept for
\* the next one.
NextRequest ==
    /\ pc = "idle"
    /\ result # NoResult
    /\ pc' = "idle"
    /\ columns' = <<>>
    /\ df_empty' = FALSE
    /\ subjects' = <<>>
    /\ students' = <<>>
    /\ order' = <<>>
    /\ lastRow' = <<>>
    /\ overwrote' = FALSE
    /\ result' = NoResult

Next ==
    \/ Get
    \/ PostNoFile
    \/ PostUnreadable
    \/ \E t \in Tables : PostEmptyCsv(t)
    \/ \E t \in Tables : PostCsv(t)
    \/ \E row \in RowsFor(columns) : IterRow(row)
    \/ Render
    \/ \E sgpa \in 0..MaxSgpa : CallAssignGrade(sgpa)
    \/ \E sgpa \in 0..MaxSgpa : CallGiveSuggestions(sgpa)
    \/ \E marks \in SeqsUpTo(MarkPool, MaxMarks) : CallCalculateSgpa(marks)
    \/ \E in \in FigureInputs : CallBuildFigures(in)
    \/ NextRequest

Spec == Init /\ [][Next]_vars

---------------------------------------------------------------------------
(* Properties                                                              *)

Abs(x) == IF x < 0 THEN -x ELSE x

\* A str made of whitespace only (the empty str included).
Blank(s) == \A j \in 1..Len(s) : s[j] = " "

\* A table cell that holds no value: missing, or a blank str.
MissingOrBlank(cell) == cell.t = "nan" \/ (cell.t = "str" /\ Blank(cell.s))

\* A non-blank str that float() does not accept.
Unparseable(cell) == cell.t = "str" /\ ~Blank(cell.s) /\ ~PyFloat(cell).ok

\* The mark cell of subject sub in the last row filed under name n; a
\* table without the column counts as a missing cell.
MarkCell(n, sub) == RowGet(columns, lastRow[n], sub \o MARKS, NaN)

StrictlySorted(q) == \A i \in 1..(Len(q) - 1) : LexLess(q[i], q[i + 1])

\* The records parse_df_to_students holds, each with the row it came from.
Names == DOMAIN students \cap DOMAIN lastRow

\* C1: a missing, blank or whitespace-only mark cell gives the entry
\* "Absent", adds 0 to total and 1 to absents; a non-blank cell that is not
\* a number gives the numeric entry 0 and leaves absents alone; absents is
\* the number of "Absent" entries of the record.
C1_AbsentVersusUnparseable ==
    \A n \in Names :
        LET rec == students[n]
        IN  /\ \A i \in 1..Len(subjects) :
                  /\ i \in DOMAIN rec.marks
                  /\ MissingOrBlank(MarkCell(n, subjects[i]))
                         => rec.marks[i] = Str(Absent)
                  /\ Unparseable(MarkCell(n, subjects[i]))
                         => rec.marks[i] = Num(0)
                  /\ ~MissingOrBlank(MarkCell(n, subjects[i]))
                         => rec.marks[i].t = "num"
            /\ rec.absents =
                   Cardinality({i \in DOMAIN rec.marks : rec.marks[i] = Str(Absent)})
            /\ rec.total =
                   SumSeq([i \in DOMAIN rec.marks |-> NumericOrZero(rec.marks[i])])

\* A record with an absent subject and an unparseable one: absents is 1.
C1_Witness ==
    \E n \in Names : \E i, j \in 1..Len(subjects) :
        /\ MissingOrBlank(MarkCell(n, subjects[i]))
        /\ Unparseable(MarkCell(n, subjects[j]))
        /\ students[n].marks[i] = Str(Absent)
        /\ students[n].marks[j] = Num(0)
        /\ students[n].absents = 1

\* C2: the attendance stored for a subject is the attendance cell read as
\* a number, and exactly 0.0 when the column is absent, the cell is missing
\* or blank, or the cell is not a number.
C2_AttendanceDefaultsToZero ==
    \A n \in Names : \A sub \in SeqToSet(subjects) :
        LET present == HasColumn(columns, sub \o ATTENDANCE)
            cell == RowGet(columns, lastRow[n], sub \o ATTENDANCE, NaN)
        IN  /\ sub \in DOMAIN students[n].attendance
            /\ IF ~present \/ MissingOrBlank(cell) \/ Unparseable(cell)
               THEN students[n].attendance[sub] = Num(0)
               ELSE students[n].attendance[sub] = PyFloat(cell).val

\* The band table of the grade: lower bounds inclusive, highest band first.
GradeBand(sgpa) ==
    CASE sgpa >= 900 -> "O"
      [] sgpa >= 800 /\ sgpa < 900 -> "A+"
      [] sgpa >= 700 /\ sgpa < 800 -> "A"
      [] sgpa >= 600 /\ sgpa < 700 -> "B"
      [] sgpa >= 500 /\ sgpa < 600 -> "C"
      [] OTHER -> "F"

\* C3: assign_grade returns the band of its argument, and every record's
\* grade is the band of the record's sgpa.
C3_GradeBands ==
    /\ result.op = "assign_grade" => result.ctx.ret = GradeBand(result.ctx.arg)
    /\ \A n \in DOMAIN students : students[n].grade = GradeBand(students[n].sgpa)

\* assign_grade(6.0) returned "B".
C3_Witness ==
    /\ result.op = "assign_grade"
    /\ result.ctx.arg = 600
    /\ result.ctx.ret = "B"

\* C4 as stated: two records have the same base message exactly when they
\* have the same grade.
C4_MessagePerGrade ==
    \A n1, n2 \in DOMAIN students :
        (students[n1].suggestion.base = students[n2].suggestion.base)
            <=> (students[n1].grade = students[n2].grade)

\* The band a base message belongs to: the grades C and F share one.
MessageBand(grade) == IF grade = "C" THEN "F" ELSE grade

\* C4, amended: the base message has the bands 9, 8, 7, 6 and below 6; two
\* records have the same base message exactly when they have the same
\* grade or both grades are among C and F; give_suggestions returns one
\* message per band.
C4_MessagePerBand ==
    /\ \A n1, n2 \in DOMAIN students :
           (students[n1].suggestion.base = students[n2].suggestion.base)
               <=> (MessageBand(students[n1].grade) = MessageBand(students[n2].grade))
    /\ result.op = "give_suggestions" =>
           /\ (result.ctx.ret = "Excellent! Keep it up!")
                  <=> (result.ctx.arg >= 900)
           /\ (result.ctx.ret = "Good! You can improve further to reach 9+.")
                  <=> (result.ctx.arg >= 800 /\ result.ctx.arg < 900)
           /\ (result.ctx.ret = "Nice! Try to focus a bit more on weak areas.")
                  <=> (result.ctx.arg >= 700 /\ result.ctx.arg < 800)
           /\ (result.ctx.ret = "Average performance. Work harder to improve.")
                  <=> (result.ctx.arg >= 600 /\ result.ctx.arg < 700)
           /\ (result.ctx.ret = "Need serious improvement. Focus on your studies.")
                  <=> (result.ctx.arg < 600)

\* Two records, one of grade C and one of grade F, with the same message.
C4_Witness ==
    \E n1, n2 \in DOMAIN students :
        /\ students[n1].grade = "C"
        /\ students[n2].grade = "F"
        /\ students[n1].suggestion.base = students[n2].suggestion.base

\* The subjects of a record whose stored attendance is a number below 75.
LowSubjects(n) ==
    {sub \in SeqToSet(subjects) :
        /\ students[n].attendance[sub].t = "num"
        /\ students[n].attendance[sub].v < 7500}

\* C5: the warning is appended exactly when some subject's stored
\* attendance is below 75, and then names exactly those subjects, each
\* once, in sorted order; otherwise the suggestion is the base message.
C5_LowAttendanceWarning ==
    \A n \in DOMAIN students :
        LET sug == students[n].suggestion
        IN  /\ sug.appended <=> (LowSubjects(n) # {})
            /\ SeqToSet(sug.names) = LowSubjects(n)
            /\ Len(sug.names) = Cardinality(LowSubjects(n))
            /\ StrictlySorted(sug.names)
            /\ \A i \in 1..Len(sug.names) :
                   \E k \in 1..Len(subjects) : subjects[k] = sug.names[i]
            /\ sug.base = give_suggestions(students[n].sgpa)

\* A warning naming two subjects, in sorted order, from a table whose
\* columns are in the other order.
C5_Witness ==
    \E n \in DOMAIN students :
        /\ students[n].suggestion.appended
        /\ students[n].suggestion.names = <<Eng, Math>>
        /\ columns[2] = Math \o MARKS

\* A column label without its trailing "_marks".
StripSuffix(col) == SubSeq(col, 1, Len(col) - Len(MARKS))

\* C6: the subject list is the sorted, duplicate-free list of the labels
\* ending in "_marks" with that trailing suffix removed, and so every
\* subject s has a column s_marks.
C6_SubjectsFromMarkColumns ==
    /\ StrictlySorted(subjects)
    /\ SeqToSet(subjects) =
           {StripSuffix(columns[i]) :
               i \in {j \in 1..Len(columns) : EndsWith(columns[j], MARKS)}}
    /\ \A s \in SeqToSet(subjects) : HasColumn(columns, s \o MARKS)

\* sgpa is total / (len * 10) rounded to the nearest hundredth (all three
\* counted in hundredths).
NearestHundredth(sgpa, total, len) ==
    2 * Abs(sgpa * len * 10 - total) <= len * 10

SgpaOf(sgpa, marks) ==
    /\ marks = <<>> => sgpa = 0
    /\ marks # <<>> => NearestHundredth(sgpa, SumSeq(marks), Len(marks))
    /\ (\A i \in 1..Len(marks) : marks[i] >= 0 /\ marks[i] <= 10000)
           => (sgpa >= 0 /\ sgpa <= 1000)

\* C7: calculate_sgpa returns mean / 10 rounded to two decimals, 0 for the
\* empty list; a record's sgpa is that of its effective marks (Absent as
\* 0), whose sum is the record's total; marks within 0..100 give an sgpa
\* within 0..10.
C7_SgpaIsRoundedMean ==
    /\ result.op = "calculate_sgpa" => SgpaOf(result.ctx.ret, result.ctx.arg)
    /\ \A n \in DOMAIN students :
           LET eff == [i \in DOMAIN students[n].marks |->
                          NumericOrZero(students[n].marks[i])]
           IN  /\ students[n].total = SumSeq(eff)
               /\ SgpaOf(students[n].sgpa, eff)

\* calculate_sgpa rounded a mean of three marks up.
C7_Witness ==
    /\ result.op = "calculate_sgpa"
    /\ Len(result.ctx.arg) = 3
    /\ result.ctx.ret * 30 > SumSeq(result.ctx.arg)

\* C8: a record has one mark entry per subject, entry i being that of
\* subject i, and one attendance entry per subject.
C8_OneEntryPerSubject ==
    \A n \in Names :
        /\ DOMAIN students[n].marks = 1..Len(subjects)
        /\ DOMAIN students[n].attendance = SeqToSet(subjects)
        /\ \A i \in 1..Len(subjects) :
               LET cell == MarkCell(n, subjects[i])
               IN  /\ (students[n].marks[i] = Str(Absent)) <=> MissingOrBlank(cell)
                   /\ cell.t = "num" => students[n].marks[i] = cell

\* A record of two different marks, in subject order, from a table whose
\* columns are in the other order and which has no attendance column.
C8_Witness ==
    \E n \in Names :
        /\ columns = <<NameCol, Math \o MARKS, Eng \o MARKS>>
        /\ subjects = <<Eng, Math>>
        /\ students[n].marks = <<Num(12000), Num(5500)>>
        /\ DOMAIN students[n].attendance = {Eng, Math}

\* C9 as stated: for a table of zero rows index ends with students empty,
\* explicit empty figures and a class summary of zeros.
C9_EmptyTableSummary ==
    (result.op = "index" /\ df_empty) =>
        /\ DOMAIN students = {}
        /\ subjects = DeriveSubjects(columns)
        /\ result.kind = "render"
        /\ result.ctx.figs = EmptyFigures
        /\ result.ctx.class_summary = [avg_sgpa |-> 0, max_sgpa |-> 0, min_sgpa |-> 0]

\* C9, amended: for a table of zero rows parse_df_to_students returns no
\* students and the subjects of the column labels, and index then flashes
\* a warning and redirects, producing neither figures nor a class summary;
\* build_figures called with no students returns the explicit empty
\* structures.
C9_EmptyTableRedirects ==
    /\ (result.op = "index" /\ df_empty) =>
           /\ DOMAIN students = {}
           /\ StrictlySorted(subjects)
           /\ SeqToSet(subjects) =
                  {Remove(columns[i], MARKS) :
                      i \in {j \in 1..Len(columns) : EndsWith(columns[j], MARKS)}}
           /\ result.kind = "redirect"
           /\ result.flash = <<"warning", "No student rows found in the CSV.">>
           /\ result.ctx = NoContext
    /\ (result.op = "build_figures" /\ result.ctx.arg.names = <<>>) =>
           /\ \A f \in {"sgpa", "grade", "att_vs_sgpa", "heatmap", "stacked"} :
                  result.ctx.ret[f].data = <<>> /\ result.ctx.ret[f].layout = <<>>
           /\ result.ctx.ret.per_student_att = <<>>

\* index has answered an upload of zero rows whose columns name subjects.
C9_Witness ==
    /\ result.op = "index"
    /\ df_empty
    /\ Len(subjects) = 2
    /\ result.kind = "redirect"

\* C10: there is one record per distinct name (a missing name counting as
\* "Unknown"), and the record under a name is the one computed from the
\* last row of that name alone.
C10_LastRowWins ==
    /\ DOMAIN students = DOMAIN lastRow
    /\ SeqToSet(order) = DOMAIN students
    /\ Len(order) = Cardinality(DOMAIN students)
    /\ \A n \in Names :
           students[n] = StudentRecord(columns, lastRow[n], subjects)

\* A row was filed under a name already present; the record under
\* "Unknown" is that of a row whose name cell reads "Unknown", and there
\* are two records.
C10_Witness ==
    /\ overwrote
    /\ Unknown \in DOMAIN students
    /\ lastRow[Unknown][1] = Str(Unknown)
    /\ Cardinality(DOMAIN students) = 2

=============================================================================
